---- MODULE Spec2Model ----
(***************************************************************************)
(* News-Summarizer backend (src/backend/main.py): the cache key builder,   *)
(* the in-memory result cache with its TTL, the two source fetchers, the   *)
(* summarizer client, the text-to-audio step and the /generate-audio       *)
(* handler that sequences them.                                            *)
(*                                                                         *)
(* Strings are sequences of one-character strings, so that strip(),        *)
(* lower() and the lexicographic order of list.sort() are computed and not *)
(* assumed.  The handler is an `async def` that never awaits, so one       *)
(* process runs one handler at a time, from its first line to its return   *)
(* or raise; the model follows one handler through its statements and      *)
(* lets the clock advance between any two of them.                         *)
(***************************************************************************)
EXTENDS Integers, Sequences, FiniteSets, TLC

VARIABLES
    CACHE,      \* main.py:53   key -> [data, ts], a function on the stored keys
    now,        \* time.time()
    env,        \* main.py:22-24  which of the three credentials are configured
    file,       \* the content of summary_audio.mp3 (main.py:266)
    request,    \* the NewsRequest being handled: [topics, source_type]
    pc,         \* the statement of generate_audio the handler is at
    loc,        \* the handler's local variables
    response,   \* what the handler returned or raised
    trace,      \* history of this request: upstream calls made and their answers
    lastSet,    \* history: stored key -> the data given to the latest
                \* set_cache(key), and the request whose handler called it
    served,     \* number of requests received so far
    probe,      \* inputs and outputs of make_cache_key (specification SpecKey)
    inflight,   \* specification SpecConc: per connection, the request it sent
                \* and the state of the handler invocation that serves it
    loop        \* specification SpecConc: the connection whose handler holds
                \* the event loop's thread, 0 when the loop is free

vars == <<CACHE, now, env, file, request, pc, loc, response, trace, lastSet,
          served, probe, inflight, loop>>

----------------------------------------------------------------------------
(* Bounds of the model.                                                    *)

\* longest topic list drawn for make_cache_key
MaxTopics == 2
\* number of requests one run receives
MaxRequests == 3
\* number of clock advances one run makes
MaxTicks == 1

\* main.py:54
CACHE_TTL_SECONDS == 600

----------------------------------------------------------------------------
(* Strings.                                                                *)

\* code points of the characters used, for the order of str comparison
Ord(c) == CASE c = " " -> 32
            [] c = "A" -> 65
            [] c = "B" -> 66
            [] c = "a" -> 97
            [] c = "b" -> 98

IsSpace(c) == c = " "

\* str.lower(), one character
LowerChar(c) == CASE c = "A" -> "a"
                  [] c = "B" -> "b"
                  [] OTHER -> c

\* str.lower()
Lower(s) == [i \in DOMAIN s |-> LowerChar(s[i])]

RECURSIVE LStrip(_)
LStrip(s) == IF s = <<>> THEN s
             ELSE IF IsSpace(Head(s)) THEN LStrip(Tail(s)) ELSE s

RECURSIVE RStrip(_)
RStrip(s) == IF s = <<>> THEN s
             ELSE IF IsSpace(s[Len(s)]) THEN RStrip(SubSeq(s, 1, Len(s) - 1)) ELSE s

\* str.strip()
Strip(s) == RStrip(LStrip(s))

\* a < b for two str values: lexicographic on code points
RECURSIVE StrLess(_, _)
StrLess(a, b) ==
    IF b = <<>> THEN FALSE
    ELSE IF a = <<>> THEN TRUE
    ELSE IF Ord(Head(a)) < Ord(Head(b)) THEN TRUE
    ELSE IF Ord(Head(a)) > Ord(Head(b)) THEN FALSE
    ELSE StrLess(Tail(a), Tail(b))

\* insert x into the sorted list l, after the elements not greater than it
RECURSIVE Insert(_, _)
Insert(x, l) ==
    IF l = <<>> THEN <<x>>
    ELSE IF StrLess(x, Head(l)) THEN <<x>> \o l
    ELSE <<Head(l)>> \o Insert(x, Tail(l))

\* list.sort() on a list of str (stable, ascending)
RECURSIVE Sort(_)
Sort(l) == IF l = <<>> THEN <<>>
           ELSE Insert(l[Len(l)], Sort(SubSeq(l, 1, Len(l) - 1)))

\* [f(t) for t in l if t.strip()]
RECURSIVE StripNonBlank(_)
StripNonBlank(l) ==
    IF l = <<>> THEN <<>>
    ELSE IF Strip(Head(l)) # <<>>
         THEN <<Strip(Head(l))>> \o StripNonBlank(Tail(l))
         ELSE StripNonBlank(Tail(l))

----------------------------------------------------------------------------
(* Cache key.                                                              *)

\* main.py:62  [t.strip().lower() for t in topics if t.strip()]
NormalizeTopics(topics) ==
    LET kept == StripNonBlank(topics)
    IN  [i \in DOMAIN kept |-> Lower(kept[i])]

\* SortTopics with a fault: the list is left in the order given
SortTopics_Unsorted(l) == l

\* main.py:63  normalized_topics.sort()
SortTopics(l) == Sort(l)

\* main.py:68  json.dumps(payload, sort_keys=True): the keys in sorted order,
\* "source_type" before "topics", each with its value
JsonDumps(payload) ==
    <<<<"source_type", payload.source_type>>, <<"topics", payload.topics>>>>

\* main.py:69  hashlib.sha256(raw).hexdigest(), taken as collision-free: the
\* digest stands for the text it was computed from
Sha256Hex(raw) == <<"sha256", raw>>

\* make_cache_key with a fault: the source type is left out of the payload
make_cache_key_TopicsOnly(topics, source_type) ==
    LET normalized_topics == SortTopics(NormalizeTopics(topics))
        payload == [topics |-> normalized_topics, source_type |-> "any"]
    IN  Sha256Hex(JsonDumps(payload))

\* main.py:57-69
make_cache_key(topics, source_type) ==
    LET normalized_topics == SortTopics(NormalizeTopics(topics))
        payload == [topics |-> normalized_topics, source_type |-> source_type]
    IN  Sha256Hex(JsonDumps(payload))

----------------------------------------------------------------------------
(* Values.                                                                 *)

\* Python's None, and a value that is present
None == <<>>
Some(v) == <<v>>

\* the empty str
EmptyStr == <<>>

\* models.py:6  Literal["news","X","both"]
SourceTypes == {"news", "X", "both"}

\* a {"summary": ..., "audio": ...} dict (main.py:331-334)
Result(summary, audio) == [summary |-> summary, audio |-> audio]

----------------------------------------------------------------------------
(* Result cache.                                                           *)

NoEntries == [k \in {} |-> None]

\* CacheDel with a fault: the whole cache is cleared
CacheDel_Clear(cache, key) == NoEntries

\* del CACHE[key]
CacheDel(cache, key) == [k \in (DOMAIN cache) \ {key} |-> cache[k]]

\* Expired with a fault: the entry lives one second longer
Expired_OffByOne(entry, t) == t - entry.ts > CACHE_TTL_SECONDS + 1

\* Expired with a fault: the comparison is turned around
Expired_Inverted(entry, t) == t - entry.ts < CACHE_TTL_SECONDS

\* main.py:77  time.time() - entry["ts"] > CACHE_TTL_SECONDS
Expired(entry, t) == t - entry.ts > CACHE_TTL_SECONDS

\* get_from_cache with a fault: a hit renews the entry's timestamp
get_from_cache_Touch(cache, key, t) ==
    IF key \notin DOMAIN cache
    THEN [ret |-> None, cache |-> cache]
    ELSE IF Expired(cache[key], t)
         THEN [ret |-> None, cache |-> CacheDel(cache, key)]
         ELSE [ret |-> Some(cache[key].data),
               cache |-> [cache EXCEPT ![key].ts = t]]

\* main.py:72-81  get_from_cache at time t: what it returns and the cache it leaves
get_from_cache(cache, key, t) ==
    IF key \notin DOMAIN cache
    THEN [ret |-> None, cache |-> cache]
    ELSE IF Expired(cache[key], t)
         THEN [ret |-> None, cache |-> CacheDel(cache, key)]
         ELSE [ret |-> Some(cache[key].data), cache |-> cache]

\* main.py:84-86  set_cache at time t: the cache it leaves
set_cache(cache, key, data, t) ==
    [k \in (DOMAIN cache) \cup {key} |->
        IF k = key THEN [data |-> data, ts |-> t] ELSE cache[k]]

----------------------------------------------------------------------------
(* What a call can do: return a value, raise fastapi.HTTPException, or      *)
(* raise any other exception.                                              *)

Return(v) == [exc |-> "none", status |-> 200, detail |-> "", value |-> v]
HTTPException(status, detail) ==
    [exc |-> "HTTPException", status |-> status, detail |-> detail, value |-> EmptyStr]
Raise(e) == [exc |-> "Exception", status |-> 0, detail |-> e, value |-> EmptyStr]

----------------------------------------------------------------------------
(* Upstream answers.  requests.get/post either raises (timeout, connection  *)
(* error) or gives a response with a status code and a body.                *)

Raises(e) == [kind |-> "raises", status |-> 0, body |-> e, content |-> EmptyStr]
Resp(status, body, content) ==
    [kind |-> "response", status |-> status, body |-> body, content |-> content]

\* statuses other than 200 and 429 that an upstream may answer
OtherStatuses == {503}

\* the joined text of a non-empty article list / tweet list (main.py:125-130, 168-169)
NewsText == <<"news">>
XText == <<"tweets">>

\* what NewsAPI and the X API can answer: the request raises; a status other
\* than 200; 200 with a body that is not JSON, that has no item list, an empty
\* item list, or items
SearchAnswers(text) ==
    {Raises("Timeout")}
    \cup {Resp(st, "error", EmptyStr) : st \in {429} \cup OtherStatuses}
    \cup {Resp(200, b, EmptyStr) : b \in {"not json", "no items key", "empty items"}}
    \cup {Resp(200, "items", text)}

\* message contents the summarizer may produce, as token lists
GroqContents ==
    { <<"-", "a">>,
      <<"<think>", "m", "</think>", " ", "-", "b">>,
      <<"<think>", "m", "</think>", " ">> }

\* what the Groq API can answer
GroqAnswers ==
    {Raises("Timeout")}
    \cup {Resp(st, "error", EmptyStr) : st \in {429} \cup OtherStatuses}
    \cup {Resp(200, b, EmptyStr) :
             b \in {"not json", "error object", "no choices", "no message"}}
    \cup {Resp(200, "choices", c) : c \in GroqContents}

\* what gTTS can do: write the mp3 of the text, or raise, before it opened
\* the file or after
TtsAnswers == {Raises("before open"), Raises("after open"), Resp(200, "mp3", EmptyStr)}

\* no call was made
NoCall == [kind |-> "no call", status |-> 0, body |-> "", content |-> EmptyStr]

----------------------------------------------------------------------------
(* Source fetchers.                                                        *)

\* scrape_google_news with a fault: every status other than 200 is reported
\* as a rate limit
scrape_google_news_AllBusy(ans) ==
    IF ~env.NEWS_API_KEY
    THEN HTTPException(500, "NEWS_API_KEY is not configured on the server.")
    ELSE IF ans.kind = "raises" THEN Raise(ans.body)
    ELSE IF ans.status # 200
    THEN HTTPException(429, "News API rate limit reached. Please wait and try again.")
    ELSE IF ans.body = "not json" THEN Raise("JSONDecodeError")
    ELSE IF ans.body \in {"no items key", "empty items"} THEN Return(EmptyStr)
    ELSE Return(ans.content)

\* main.py:91-130  scrape_google_news, given the upstream's answer
scrape_google_news(ans) ==
    IF ~env.NEWS_API_KEY
    THEN HTTPException(500, "NEWS_API_KEY is not configured on the server.")
    ELSE IF ans.kind = "raises" THEN Raise(ans.body)
    ELSE IF ans.status = 429
    THEN HTTPException(429, "News API rate limit reached. Please wait and try again.")
    ELSE IF ans.status # 200 THEN HTTPException(ans.status, "News API error")
    ELSE IF ans.body = "not json" THEN Raise("JSONDecodeError")
    ELSE IF ans.body \in {"no items key", "empty items"} THEN Return(EmptyStr)
    ELSE Return(ans.content)

\* scrape_x_posts with a fault: a missing token is a failure, as it is for the
\* other two credentials
scrape_x_posts_RequireToken(ans) ==
    IF ~env.X_BEARER_TOKEN
    THEN HTTPException(500, "X_BEARER_TOKEN is not configured on the server.")
    ELSE IF ans.kind = "raises" THEN Raise(ans.body)
    ELSE IF ans.status = 429
    THEN HTTPException(429, "X API rate limit reached. Please wait and try again.")
    ELSE IF ans.status # 200 THEN Return(EmptyStr)
    ELSE IF ans.body = "not json" THEN Raise("JSONDecodeError")
    ELSE IF ans.body \in {"no items key", "empty items"} THEN Return(EmptyStr)
    ELSE Return(ans.content)

\* scrape_x_posts with a fault: a 429 is ignored like any other error status
scrape_x_posts_Swallow429(ans) ==
    IF ~env.X_BEARER_TOKEN THEN Return(EmptyStr)
    ELSE IF ans.kind = "raises" THEN Raise(ans.body)
    ELSE IF ans.status # 200 THEN Return(EmptyStr)
    ELSE IF ans.body = "not json" THEN Raise("JSONDecodeError")
    ELSE IF ans.body \in {"no items key", "empty items"} THEN Return(EmptyStr)
    ELSE Return(ans.content)

\* scrape_x_posts with a fault: an error status is raised, as scrape_google_news does
scrape_x_posts_Strict(ans) ==
    IF ~env.X_BEARER_TOKEN THEN Return(EmptyStr)
    ELSE IF ans.kind = "raises" THEN Raise(ans.body)
    ELSE IF ans.status = 429
    THEN HTTPException(429, "X API rate limit reached. Please wait and try again.")
    ELSE IF ans.status # 200 THEN HTTPException(ans.status, "X API error")
    ELSE IF ans.body = "not json" THEN Raise("JSONDecodeError")
    ELSE IF ans.body \in {"no items key", "empty items"} THEN Return(EmptyStr)
    ELSE Return(ans.content)

\* main.py:133-169  scrape_x_posts, given the upstream's answer
scrape_x_posts(ans) ==
    IF ~env.X_BEARER_TOKEN THEN Return(EmptyStr)
    ELSE IF ans.kind = "raises" THEN Raise(ans.body)
    ELSE IF ans.status = 429
    THEN HTTPException(429, "X API rate limit reached. Please wait and try again.")
    ELSE IF ans.status # 200 THEN Return(EmptyStr)
    ELSE IF ans.body = "not json" THEN Raise("JSONDecodeError")
    ELSE IF ans.body \in {"no items key", "empty items"} THEN Return(EmptyStr)
    ELSE Return(ans.content)

----------------------------------------------------------------------------
(* Summarizer.                                                             *)

\* index of the first "</think>" of s, 0 when there is none
FirstClose(s) ==
    IF \E i \in DOMAIN s : s[i] = "</think>"
    THEN CHOOSE i \in DOMAIN s : /\ s[i] = "</think>"
                                 /\ \A j \in 1..(i - 1) : s[j] # "</think>"
    ELSE 0

\* main.py:256  re.sub(r"<think>.*?</think>", "", raw_text, flags=re.DOTALL)
RECURSIVE RemoveThink(_)
RemoveThink(s) ==
    IF s = <<>> THEN <<>>
    ELSE IF Head(s) = "<think>" /\ FirstClose(Tail(s)) # 0
         THEN RemoveThink(SubSeq(Tail(s), FirstClose(Tail(s)) + 1, Len(Tail(s))))
         ELSE <<Head(s)>> \o RemoveThink(Tail(s))

\* main.py:253-257
CleanSummary(content) == Strip(RemoveThink(Strip(content)))

\* main.py:174-257  summary_function, given the upstream's answer
summary_function(news_data, x_data, ans) ==
    IF ~env.GROQ_API_KEY
    THEN HTTPException(500, "GROQ_API_KEY is not configured on the server.")
    ELSE IF news_data = EmptyStr /\ x_data = EmptyStr
    THEN HTTPException(400, "No news or tweets available to summarize for the given topics.")
    ELSE IF ans.kind = "raises" THEN Raise(ans.body)
    ELSE IF ans.status = 429
    THEN HTTPException(429, "Groq LLM rate limit reached. Please wait a few seconds and try again.")
    ELSE IF ans.status # 200 THEN HTTPException(ans.status, "Groq API error")
    ELSE IF ans.body = "not json" THEN HTTPException(500, "Invalid JSON from Groq")
    ELSE IF ans.body = "error object" THEN HTTPException(500, "Groq API error")
    ELSE IF ans.body = "no choices" THEN HTTPException(500, "No choices in Groq response")
    ELSE IF ans.body = "no message" THEN Raise("KeyError")
    ELSE Return(CleanSummary(ans.content))

\* whether summary_function sends its request
SummaryCalls(news_data, x_data) ==
    env.GROQ_API_KEY /\ ~(news_data = EmptyStr /\ x_data = EmptyStr)

----------------------------------------------------------------------------
(* Text to audio.                                                          *)

\* the mp3 gTTS makes of a text, and the base64 text of a file's bytes
NoBytes == <<>>
Mp3(text) == <<"mp3", text>>
Base64(bytes) == <<"base64", bytes>>

\* convert_text_to_audio with a fault: a gTTS error is swallowed and no audio returned
convert_text_to_audio_Swallow(text, ans, old) ==
    IF ans.kind = "raises"
    THEN [file |-> IF ans.body = "before open" THEN old ELSE NoBytes,
          out |-> Return(EmptyStr)]
    ELSE [file |-> Mp3(text), out |-> Return(Base64(Mp3(text)))]

\* main.py:262-273  convert_text_to_audio: the file it leaves and what it returns
convert_text_to_audio(text, ans, old) ==
    IF ans.kind = "raises"
    THEN [file |-> IF ans.body = "before open" THEN old ELSE NoBytes,
          out |-> Raise("gTTSError")]
    ELSE [file |-> Mp3(text), out |-> Return(Base64(Mp3(text)))]

----------------------------------------------------------------------------
(* The /generate-audio handler, main.py:278-349.                           *)

NoResponse == [kind |-> "none", status |-> 0, detail |-> "", body |-> None]

\* return JSONResponse(result)
JSONResponse(result) ==
    [kind |-> "ok", status |-> 200, detail |-> "", body |-> Some(result)]

ErrorResponse(status, detail) ==
    [kind |-> "error", status |-> status, detail |-> detail, body |-> None]

\* Except with a fault: the catch-all clause is missing, and an exception that
\* is not an HTTPException leaves the handler
Except_Propagate(o) ==
    IF o.exc = "HTTPException"
    THEN ErrorResponse(o.status, o.detail)
    ELSE [kind |-> "unhandled", status |-> 0, detail |-> o.detail, body |-> None]

\* main.py:341-349  the two except clauses: an HTTPException is re-raised,
\* any other exception becomes HTTPException(500, str(e))
Except(o) ==
    IF o.exc = "HTTPException"
    THEN ErrorResponse(o.status, o.detail)
    ELSE ErrorResponse(500, o.detail)

InitLoc == [topics |-> <<>>, cache_key |-> None, cached |-> None,
            news_data |-> EmptyStr, x_data |-> EmptyStr, summary |-> EmptyStr,
            audio_base64 |-> EmptyStr, result |-> None]

InitTrace == [news |-> <<>>, x |-> <<>>, groq |-> <<>>, tts |-> <<>>,
              looked |-> FALSE, evicted |-> FALSE, fetched |-> FALSE,
              stored |-> FALSE]

NoRequest == [topics |-> <<>>, source_type |-> "none"]

\* the connections over which clients send requests at the same time
Connections == {1, 2}

\* a connection on which no request was sent, and its handler's variables
NoInvocation ==
    [request |-> NoRequest, pc |-> "idle", cache_key |-> None, entry |-> None,
     summary |-> EmptyStr, audio_base64 |-> EmptyStr, response |-> NoResponse,
     cache_error |-> FALSE]

NoInflight == [c \in Connections |-> NoInvocation]

NoProbe == [a |-> <<>>, b |-> <<>>, source_type |-> "none",
            keyA |-> None, keyB |-> None, looked |-> FALSE, hit |-> None]

\* topic strings requests are made of
TopicPool == { <<"A">>, <<"a">>, <<" ", "a", " ">>, <<"b">>, <<"a", "B">>, <<" ">> }

\* a NewsRequest body
Req(topics, source_type) == [topics |-> topics, source_type |-> source_type]

\* the requests the handler receives: one topic for "news" and for "both"; for
\* "both" also the same topic spelled otherwise among blanks; that topic with
\* a second one for "X"; a list of blanks; a source type outside the Literal
Requests ==
    {Req(<< <<"A">> >>, s) : s \in {"news", "both"}}
    \cup { Req(<< <<" ", "a", " ">>, <<" ">> >>, "both"),
           Req(<< <<"b">>, <<"A">> >>, "X"),
           Req(<< <<" ">> >>, "news"),
           Req(<< <<"A">> >>, "other") }

\* the state in which the handler ends with `resp`
Finish(resp) ==
    /\ response' = resp
    /\ pc' = "done"

\* a call raised `o` inside the try block
Raised(o) == Finish(Except(o))

\* a request arrives; pydantic (models.py:4-6) rejects a source_type outside
\* the Literal with 422 before the handler runs
Receive(topics, source_type) ==
    /\ pc \in {"idle", "done"}
    /\ served < MaxRequests
    /\ served' = served + 1
    /\ request' = Req(topics, source_type)
    /\ loc' = InitLoc
    /\ trace' = InitTrace
    /\ IF source_type \in SourceTypes
       THEN /\ pc' = "filter_topics"
            /\ response' = NoResponse
       ELSE Finish(ErrorResponse(422, "Input should be 'news', 'X' or 'both'"))
    /\ UNCHANGED <<CACHE, now, env, file, lastSet, probe, inflight, loop>>

\* FilterTopics with a fault: the check for an empty list is left out
FilterTopics_NoCheck ==
    /\ pc = "filter_topics"
    /\ loc' = [loc EXCEPT !.topics = StripNonBlank(request.topics)]
    /\ pc' = "check_cache"
    /\ UNCHANGED <<CACHE, now, env, file, request, response, trace, lastSet, served, probe, inflight, loop>>

\* main.py:290-292
FilterTopics ==
    /\ pc = "filter_topics"
    /\ LET topics == StripNonBlank(request.topics)
       IN  IF topics = <<>>
           THEN /\ Raised(HTTPException(400, "At least one non-empty topic is required."))
                /\ UNCHANGED loc
           ELSE /\ loc' = [loc EXCEPT !.topics = topics]
                /\ pc' = "check_cache"
                /\ UNCHANGED response
    /\ UNCHANGED <<CACHE, now, env, file, request, trace, lastSet, served, probe, inflight, loop>>

\* main.py:295-299  the lookup, and the return of what it found
CheckCache ==
    /\ pc = "check_cache"
    /\ LET cache_key == make_cache_key(loc.topics, request.source_type)
           got == get_from_cache(CACHE, cache_key, now)
           cached == got.ret
       IN  /\ CACHE' = got.cache
           /\ loc' = [loc EXCEPT !.cache_key = Some(cache_key), !.cached = cached]
           /\ trace' = [trace EXCEPT !.looked = TRUE,
                                     !.evicted = (got.cache # CACHE)]
           /\ lastSet' = [k \in DOMAIN got.cache |-> lastSet[k]]
           /\ IF cached # None
              THEN Finish(JSONResponse(cached[1]))
              ELSE /\ pc' = "scrape_news"
                   /\ UNCHANGED response
    /\ UNCHANGED <<now, env, file, request, served, probe, inflight, loop>>

\* ScrapeNews with a fault: a news search that raised is tried a second time
ScrapeNews_Retry ==
    /\ pc = "scrape_news"
    /\ IF request.source_type \in {"news", "both"}
       THEN \E ans \in (IF env.NEWS_API_KEY THEN SearchAnswers(NewsText) ELSE {NoCall}) :
              LET o == scrape_google_news(ans)
              IN  /\ trace' = IF ans = NoCall THEN trace
                              ELSE [trace EXCEPT !.news = Append(@, ans)]
                  /\ IF o.exc = "none"
                     THEN /\ loc' = [loc EXCEPT !.news_data = o.value]
                          /\ pc' = "scrape_x"
                          /\ UNCHANGED response
                     ELSE IF ans.kind = "raises" /\ trace.news = <<>>
                     THEN UNCHANGED <<pc, loc, response>>
                     ELSE /\ Raised(o)
                          /\ UNCHANGED loc
       ELSE /\ pc' = "scrape_x"
            /\ UNCHANGED <<loc, trace, response>>
    /\ UNCHANGED <<CACHE, now, env, file, request, lastSet, served, probe, inflight, loop>>

\* main.py:305-306
ScrapeNews ==
    /\ pc = "scrape_news"
    /\ IF request.source_type \in {"news", "both"}
       THEN \E ans \in (IF env.NEWS_API_KEY THEN SearchAnswers(NewsText) ELSE {NoCall}) :
              LET o == scrape_google_news(ans)
              IN  /\ trace' = IF ans = NoCall THEN trace
                              ELSE [trace EXCEPT !.news = Append(@, ans)]
                  /\ IF o.exc = "none"
                     THEN /\ loc' = [loc EXCEPT !.news_data = o.value]
                          /\ pc' = "scrape_x"
                          /\ UNCHANGED response
                     ELSE /\ Raised(o)
                          /\ UNCHANGED loc
       ELSE /\ pc' = "scrape_x"
            /\ UNCHANGED <<loc, trace, response>>
    /\ UNCHANGED <<CACHE, now, env, file, request, lastSet, served, probe, inflight, loop>>

\* GuardNoData with a fault: the guard is left out
GuardNoData_Off(news_data, x_data) ==
    /\ pc' = "summarize"
    /\ UNCHANGED response

\* main.py:312-316  the guard that follows the two fetches
GuardNoData(news_data, x_data) ==
    IF news_data = EmptyStr /\ x_data = EmptyStr
    THEN Raised(HTTPException(400,
             "No data could be fetched from News or X for the given topics."))
    ELSE /\ pc' = "summarize"
         /\ UNCHANGED response

\* main.py:308-316
ScrapeX ==
    /\ pc = "scrape_x"
    /\ IF request.source_type \in {"X", "both"}
       THEN \E ans \in (IF env.X_BEARER_TOKEN THEN SearchAnswers(XText) ELSE {NoCall}) :
              LET o == scrape_x_posts(ans)
              IN  /\ trace' = [trace EXCEPT
                                 !.x = IF ans = NoCall THEN @ ELSE Append(@, ans),
                                 !.fetched = (o.exc = "none")]
                  /\ IF o.exc = "none"
                     THEN /\ loc' = [loc EXCEPT !.x_data = o.value]
                          /\ GuardNoData(loc.news_data, o.value)
                     ELSE /\ Raised(o)
                          /\ UNCHANGED loc
       ELSE /\ GuardNoData(loc.news_data, loc.x_data)
            /\ trace' = [trace EXCEPT !.fetched = TRUE]
            /\ UNCHANGED loc
    /\ UNCHANGED <<CACHE, now, env, file, request, lastSet, served, probe, inflight, loop>>

\* main.py:322-324  the summary, and the check that it is not blank
Summarize ==
    /\ pc = "summarize"
    /\ \E ans \in (IF SummaryCalls(loc.news_data, loc.x_data)
                    THEN GroqAnswers ELSE {NoCall}) :
         LET o == summary_function(loc.news_data, loc.x_data, ans)
         IN  /\ trace' = IF ans = NoCall THEN trace
                         ELSE [trace EXCEPT !.groq = Append(@, ans)]
             /\ IF o.exc # "none"
                THEN /\ Raised(o)
                     /\ UNCHANGED loc
                ELSE /\ loc' = [loc EXCEPT !.summary = o.value]
                     /\ IF Strip(o.value) = EmptyStr
                        THEN Raised(HTTPException(500, "Summary generation failed."))
                        ELSE /\ pc' = "to_audio"
                             /\ UNCHANGED response
    /\ UNCHANGED <<CACHE, now, env, file, request, lastSet, served, probe, inflight, loop>>

\* main.py:329
ConvertToAudio ==
    /\ pc = "to_audio"
    /\ \E ans \in TtsAnswers :
         LET r == convert_text_to_audio(loc.summary, ans, file)
         IN  /\ trace' = [trace EXCEPT !.tts = Append(@, ans)]
             /\ file' = r.file
             /\ IF r.out.exc = "none"
                THEN /\ loc' = [loc EXCEPT !.audio_base64 = r.out.value]
                     /\ pc' = "store"
                     /\ UNCHANGED response
                ELSE /\ Raised(r.out)
                     /\ UNCHANGED loc
    /\ UNCHANGED <<CACHE, now, env, request, lastSet, served, probe, inflight, loop>>

\* main.py:331-339  the result is stored and returned
StoreCache ==
    /\ pc = "store"
    /\ LET result == Result(loc.summary, loc.audio_base64)
           key == loc.cache_key[1]
       IN  /\ loc' = [loc EXCEPT !.result = Some(result)]
           /\ CACHE' = set_cache(CACHE, key, result, now)
           /\ lastSet' = [k \in (DOMAIN lastSet) \cup {key} |->
                            IF k = key THEN [data |-> result, by |-> request]
                            ELSE lastSet[k]]
           /\ Finish(JSONResponse(result))
    /\ trace' = [trace EXCEPT !.stored = TRUE]
    /\ UNCHANGED <<now, env, file, request, served, probe, inflight, loop>>

\* time passes: by the TTL exactly, or by one second more
Tick(d) ==
    /\ now + d <= MaxTicks * (CACHE_TTL_SECONDS + 1)
    /\ now' = now + d
    /\ UNCHANGED <<CACHE, env, file, request, pc, loc, response, trace, lastSet,
                   served, probe, inflight, loop>>

----------------------------------------------------------------------------
(* Specification of the service.                                           *)

\* main.py:22-24  each credential is set or not when the process starts
Environments == [NEWS_API_KEY : BOOLEAN, X_BEARER_TOKEN : BOOLEAN, GROQ_API_KEY : BOOLEAN]

Init ==
    /\ CACHE = NoEntries
    /\ now = 0
    /\ env \in Environments
    /\ file = NoBytes
    /\ request = NoRequest
    /\ pc = "idle"
    /\ loc = InitLoc
    /\ response = NoResponse
    /\ trace = InitTrace
    /\ lastSet = NoEntries
    /\ served = 0
    /\ probe = NoProbe
    /\ inflight = NoInflight
    /\ loop = 0

Next ==
    \/ \E r \in Requests : Receive(r.topics, r.source_type)
    \/ FilterTopics
    \/ CheckCache
    \/ ScrapeNews
    \/ ScrapeX
    \/ Summarize
    \/ ConvertToAudio
    \/ StoreCache
    \/ \E d \in {CACHE_TTL_SECONDS, CACHE_TTL_SECONDS + 1} : Tick(d)

Spec == Init /\ [][Next]_vars

----------------------------------------------------------------------------
(* Specification of the cache key: two topic lists and a source type are    *)
(* drawn, make_cache_key is applied to both, a result is stored under the   *)
(* first key and the second key is looked up.                               *)

\* the topic lists of at most MaxTopics topics from the pool
TopicLists == UNION {[1..n -> TopicPool] : n \in 0..MaxTopics}

ProbeResult == Result(<<"-", "a">>, Base64(Mp3(<<"-", "a">>)))

InitKey ==
    /\ CACHE = NoEntries
    /\ now = 0
    /\ env = [NEWS_API_KEY |-> TRUE, X_BEARER_TOKEN |-> TRUE, GROQ_API_KEY |-> TRUE]
    /\ file = NoBytes
    /\ request = NoRequest
    /\ pc = "idle"
    /\ loc = InitLoc
    /\ response = NoResponse
    /\ trace = InitTrace
    /\ lastSet = NoEntries
    /\ served = 0
    /\ probe \in {[NoProbe EXCEPT !.a = a, !.b = b, !.source_type = s] :
                     a \in TopicLists, b \in TopicLists, s \in SourceTypes}
    /\ inflight = NoInflight
    /\ loop = 0

\* make_cache_key on both lists
MakeKeys ==
    /\ probe.keyA = None
    /\ probe' = [probe EXCEPT
                    !.keyA = Some(make_cache_key(probe.a, probe.source_type)),
                    !.keyB = Some(make_cache_key(probe.b, probe.source_type))]
    /\ UNCHANGED <<CACHE, now, env, file, request, pc, loc, response, trace,
                   lastSet, served, inflight, loop>>

\* set_cache under the first key
StoreFirst ==
    /\ probe.keyA # None
    /\ CACHE = NoEntries
    /\ ~probe.looked
    /\ CACHE' = set_cache(CACHE, probe.keyA[1], ProbeResult, now)
    /\ UNCHANGED <<now, env, file, request, pc, loc, response, trace, lastSet,
                   served, probe, inflight, loop>>

\* get_from_cache of the second key
LookupSecond ==
    /\ probe.keyB # None
    /\ CACHE # NoEntries
    /\ ~probe.looked
    /\ LET got == get_from_cache(CACHE, probe.keyB[1], now)
       IN  /\ CACHE' = got.cache
           /\ probe' = [probe EXCEPT !.looked = TRUE, !.hit = got.ret]
    /\ UNCHANGED <<now, env, file, request, pc, loc, response, trace, lastSet, served, inflight, loop>>

NextKey == MakeKeys \/ StoreFirst \/ LookupSecond

SpecKey == InitKey /\ [][NextKey]_vars

----------------------------------------------------------------------------
(* Specification of requests in flight at the same time.  Clients send      *)
(* requests over several connections; each is served by an invocation of    *)
(* the coroutine generate_audio on the one event loop of the process.  The  *)
(* statements that read or write what the invocations share (CACHE and the  *)
(* file summary_audio.mp3) are steps of their own; the fetches and the      *)
(* summary, which touch only local variables, are one step.                 *)

\* generate_audio with a fault: the lookup awaits between reading the entry
\* and checking it
Yields_InLookup(p) == p = "check_entry"

\* generate_audio with a fault: the synthesis awaits between writing the file
\* and reading it
Yields_InAudio(p) == p = "read_audio"

\* main.py:278-349  whether the coroutine gives the event loop up before the
\* statement p: generate_audio is an `async def` without any await, and
\* requests and gTTS block the thread, so it never does
Yields(p) == FALSE

\* the invocation of connection c may take its next step: it holds the event
\* loop, or the loop is free and it waits for it
MayRun(c) ==
    \/ loop = c
    \/ loop = 0 /\ inflight[c].pc \notin {"idle", "done"}

\* the invocation of connection c goes to statement p with its variables as
\* in `inv`; it keeps the loop unless it is done or yields
GoTo(c, p, inv) ==
    /\ inflight' = [inflight EXCEPT ![c] = [inv EXCEPT !.pc = p]]
    /\ loop' = IF p = "done" \/ Yields(p) THEN 0 ELSE c

\* the invocation of connection c ends with `resp`
End(c, resp) == GoTo(c, "done", [inflight[c] EXCEPT !.response = resp])

\* the requests sent in SpecConc: a topic for "both" in two spellings, the
\* topic for "news", and a list of blanks
ConcRequests ==
    { Req(<< <<"A">> >>, "both"),
      Req(<< <<" ", "a", " ">>, <<" ">> >>, "both"),
      Req(<< <<"A">> >>, "news"),
      Req(<< <<" ">> >>, "news") }

\* a client sends a request over connection c
Arrive(c, req) ==
    /\ inflight[c].pc \in {"idle", "done"}
    /\ served < MaxRequests
    /\ served' = served + 1
    /\ inflight' = [inflight EXCEPT ![c] =
                       [NoInvocation EXCEPT !.request = req, !.pc = "pending"]]
    /\ UNCHANGED <<CACHE, now, env, file, request, pc, loc, response, trace,
                   lastSet, probe, loop>>

\* main.py:288-295  the invocation starts: topics are filtered and the key made
Begin(c) ==
    /\ inflight[c].pc = "pending"
    /\ MayRun(c)
    /\ LET topics == StripNonBlank(inflight[c].request.topics)
       IN  IF topics = <<>>
           THEN End(c, Except(HTTPException(400,
                          "At least one non-empty topic is required.")))
           ELSE GoTo(c, "get_entry",
                     [inflight[c] EXCEPT !.cache_key =
                         Some(make_cache_key(topics, inflight[c].request.source_type))])
    /\ UNCHANGED <<CACHE, now, env, file, request, pc, loc, response, trace,
                   lastSet, served, probe>>

\* main.py:74  entry = CACHE.get(key)
GetEntry(c) ==
    /\ inflight[c].pc = "get_entry"
    /\ MayRun(c)
    /\ LET key == inflight[c].cache_key[1]
       IN  GoTo(c, "check_entry",
                [inflight[c] EXCEPT !.entry =
                    IF key \in DOMAIN CACHE THEN Some(CACHE[key]) ELSE None])
    /\ UNCHANGED <<CACHE, now, env, file, request, pc, loc, response, trace,
                   lastSet, served, probe>>

\* main.py:75-81 and 298-299  the entry read is checked: none is a miss; an
\* expired one is deleted from CACHE, which raises KeyError when the key is
\* no longer there; any other is returned to the client
CheckEntry(c) ==
    /\ inflight[c].pc = "check_entry"
    /\ MayRun(c)
    /\ LET key == inflight[c].cache_key[1]
           entry == inflight[c].entry
       IN  IF entry = None
           THEN /\ GoTo(c, "fetch", inflight[c])
                /\ UNCHANGED <<CACHE, lastSet>>
           ELSE IF Expired(entry[1], now)
           THEN IF key \in DOMAIN CACHE
                THEN /\ CACHE' = CacheDel(CACHE, key)
                     /\ lastSet' = [k \in DOMAIN CACHE' |-> lastSet[k]]
                     /\ GoTo(c, "fetch", inflight[c])
                ELSE /\ GoTo(c, "done",
                             [inflight[c] EXCEPT !.response = Except(Raise("KeyError")),
                                                 !.cache_error = TRUE])
                     /\ UNCHANGED <<CACHE, lastSet>>
           ELSE /\ End(c, JSONResponse(entry[1].data))
                /\ UNCHANGED <<CACHE, lastSet>>
    /\ UNCHANGED <<now, env, file, request, pc, loc, response, trace,
                   served, probe>>

\* main.py:302-324  the two fetches, the no-data guard, the summary and the
\* check that it is not blank, given the upstreams' answers: what the
\* sequence returns or raises
FetchAndSummarize(source_type, na, xa, ga) ==
    LET news == IF source_type \in {"news", "both"}
                THEN scrape_google_news(na) ELSE Return(EmptyStr)
        x == IF source_type \in {"X", "both"}
             THEN scrape_x_posts(xa) ELSE Return(EmptyStr)
    IN  IF news.exc # "none" THEN news
        ELSE IF x.exc # "none" THEN x
        ELSE IF news.value = EmptyStr /\ x.value = EmptyStr
        THEN HTTPException(400,
                 "No data could be fetched from News or X for the given topics.")
        ELSE LET summary == summary_function(news.value, x.value, ga)
             IN  IF summary.exc # "none" THEN summary
                 ELSE IF Strip(summary.value) = EmptyStr
                 THEN HTTPException(500, "Summary generation failed.")
                 ELSE summary

\* the upstreams' answers drawn in SpecConc: a search raises, finds nothing
\* or finds items; the summarizer is rate-limited or gives one of two texts
ConcSearchAnswers(text) ==
    {Raises("Timeout"), Resp(200, "empty items", EmptyStr), Resp(200, "items", text)}

ConcGroqAnswers ==
    {Resp(429, "error", EmptyStr)}
    \cup {Resp(200, "choices", c) : c \in {g \in GroqContents : CleanSummary(g) # EmptyStr}}

\* what the sequence can return or raise, over these answers
FetchOutcomes(source_type) ==
    {FetchAndSummarize(source_type, na, xa, ga) :
        na \in ConcSearchAnswers(NewsText), xa \in ConcSearchAnswers(XText),
        ga \in ConcGroqAnswers}

\* main.py:302-324
Fetch(c) ==
    /\ inflight[c].pc = "fetch"
    /\ MayRun(c)
    /\ \E o \in FetchOutcomes(inflight[c].request.source_type) :
         IF o.exc # "none"
         THEN End(c, Except(o))
         ELSE GoTo(c, "save_audio", [inflight[c] EXCEPT !.summary = o.value])
    /\ UNCHANGED <<CACHE, now, env, file, request, pc, loc, response, trace,
                   lastSet, served, probe>>

\* main.py:265-266  gTTS(text).save("summary_audio.mp3")
SaveAudio(c) ==
    /\ inflight[c].pc = "save_audio"
    /\ MayRun(c)
    /\ \E ans \in TtsAnswers :
         LET r == convert_text_to_audio(inflight[c].summary, ans, file)
         IN  /\ file' = r.file
             /\ IF r.out.exc # "none"
                THEN End(c, Except(r.out))
                ELSE GoTo(c, "read_audio", inflight[c])
    /\ UNCHANGED <<CACHE, now, env, request, pc, loc, response, trace,
                   lastSet, served, probe>>

\* main.py:268-271  the file is opened, read and encoded
ReadAudio(c) ==
    /\ inflight[c].pc = "read_audio"
    /\ MayRun(c)
    /\ GoTo(c, "store", [inflight[c] EXCEPT !.audio_base64 = Base64(file)])
    /\ UNCHANGED <<CACHE, now, env, file, request, pc, loc, response, trace,
                   lastSet, served, probe>>

\* main.py:331-339  the result is stored and returned
Store(c) ==
    /\ inflight[c].pc = "store"
    /\ MayRun(c)
    /\ LET result == Result(inflight[c].summary, inflight[c].audio_base64)
           key == inflight[c].cache_key[1]
       IN  /\ CACHE' = set_cache(CACHE, key, result, now)
           /\ lastSet' = [k \in (DOMAIN lastSet) \cup {key} |->
                            IF k = key
                            THEN [data |-> result, by |-> inflight[c].request]
                            ELSE lastSet[k]]
           /\ End(c, JSONResponse(result))
    /\ UNCHANGED <<now, env, file, request, pc, loc, response, trace,
                   served, probe>>

InitConc ==
    /\ CACHE = NoEntries
    /\ now = 0
    /\ env = [NEWS_API_KEY |-> TRUE, X_BEARER_TOKEN |-> TRUE, GROQ_API_KEY |-> TRUE]
    /\ file = NoBytes
    /\ request = NoRequest
    /\ pc = "idle"
    /\ loc = InitLoc
    /\ response = NoResponse
    /\ trace = InitTrace
    /\ lastSet = NoEntries
    /\ served = 0
    /\ probe = NoProbe
    /\ inflight = NoInflight
    /\ loop = 0

NextConc ==
    \/ \E c \in Connections, req \in ConcRequests : Arrive(c, req)
    \/ \E c \in Connections : Begin(c)
    \/ \E c \in Connections : GetEntry(c)
    \/ \E c \in Connections : CheckEntry(c)
    \/ \E c \in Connections : Fetch(c)
    \/ \E c \in Connections : SaveAudio(c)
    \/ \E c \in Connections : ReadAudio(c)
    \/ \E c \in Connections : Store(c)
    \/ \E d \in {CACHE_TTL_SECONDS, CACHE_TTL_SECONDS + 1} : Tick(d)

SpecConc == InitConc /\ [][NextConc]_vars

----------------------------------------------------------------------------
(* Properties of the cache key.                                            *)

Range(l) == {l[i] : i \in DOMAIN l}

\* two strings that differ at most in letter case
SameLetters(x, y) ==
    /\ Len(x) = Len(y)
    /\ \A i \in DOMAIN x : LowerChar(x[i]) = LowerChar(y[i])

\* two topic lists that, trimmed and without their blank topics, are
\* permutations and/or letter-case variants of one another
SameTopics(a, b) ==
    LET ka == StripNonBlank(a)
        kb == StripNonBlank(b)
    IN  /\ Len(ka) = Len(kb)
        /\ \E f \in [DOMAIN ka -> DOMAIN kb] :
              /\ \A i, j \in DOMAIN ka : f[i] = f[j] => i = j
              /\ \A i \in DOMAIN ka : SameLetters(ka[i], kb[f[i]])

\* the set of topics of a list: trimmed, blank dropped, lower-cased, each once
TopicSet(l) == {Lower(t) : t \in Range(StripNonBlank(l))}

\* C1: topic lists that are permutations and/or letter-case variants of one
\* another (after trimming and dropping blank topics) get the same key with
\* the same source type.
C1_KeyInvariance ==
    (probe.keyA # None /\ SameTopics(probe.a, probe.b)) => probe.keyA = probe.keyB

\* C1 witness: keys were made for two lists that are variants of one another
\* and differ both in the order and in the case of their topics.
C1_Witness ==
    /\ probe.keyA # None
    /\ SameTopics(probe.a, probe.b)
    /\ Len(StripNonBlank(probe.a)) >= 2
    /\ NormalizeTopics(probe.a) # NormalizeTopics(probe.b)
    /\ \E t \in Range(probe.a) : Lower(t) # t
    /\ probe.a # probe.b

\* C2: a request that repeats a topic (also in another case) is treated as
\* the request with that topic once: lists with the same topic set get the
\* same key with the same source type, and the one hits the other's entry.
C2_DedupSameKey ==
    /\ (probe.keyA # None /\ TopicSet(probe.a) = TopicSet(probe.b))
          => probe.keyA = probe.keyB
    /\ (probe.looked /\ TopicSet(probe.a) = TopicSet(probe.b))
          => probe.hit = Some(ProbeResult)

----------------------------------------------------------------------------
(* Properties of the cache and of the handler.                             *)

\* the step in which the handler looks its key up (main.py:295-296)
LookupStep == pc = "check_cache" /\ pc' # "check_cache"

\* the step in which the handler stores and returns its result (main.py:337-339)
StoreStep == pc = "store" /\ pc' # "store"

\* the steps in which an upstream answers the handler
NewsAnswered == Len(trace'.news) = Len(trace.news) + 1
XAnswered == Len(trace'.x) = Len(trace.x) + 1

Age(key) == now - CACHE[key].ts

NoUpstreamCalls(tr) ==
    tr.news = <<>> /\ tr.x = <<>> /\ tr.groq = <<>> /\ tr.tts = <<>>

\* C3: a lookup returns a payload only if the key has an entry of age at most
\* CACHE_TTL_SECONDS, the payload is the one given to the latest set_cache
\* of the key, and an entry of age exactly the TTL is returned.
C3_NoStaleReads ==
    [][LookupStep =>
         LET key == loc'.cache_key[1]
         IN  /\ loc'.cached # None =>
                   /\ key \in DOMAIN CACHE
                   /\ Age(key) <= CACHE_TTL_SECONDS
                   /\ loc'.cached = Some(lastSet[key].data)
             /\ (key \in DOMAIN CACHE /\ Age(key) = CACHE_TTL_SECONDS) =>
                   loc'.cached # None]_vars

\* C3 witness: a lookup returned an entry whose age is exactly the TTL.
C3_Witness ==
    /\ pc = "done"
    /\ loc.cached # None
    /\ loc.cache_key[1] \in DOMAIN CACHE
    /\ Age(loc.cache_key[1]) = CACHE_TTL_SECONDS

\* C4: a lookup of an entry older than the TTL reports absent and removes that
\* entry and no other; a key that is absent is reported absent, and comes
\* back only by a set_cache of that key.
C4_ExpiredEvicted ==
    [][/\ LookupStep =>
            LET key == loc'.cache_key[1]
            IN  /\ (key \in DOMAIN CACHE /\ Age(key) > CACHE_TTL_SECONDS) =>
                      /\ loc'.cached = None
                      /\ CACHE' = [k \in (DOMAIN CACHE) \ {key} |-> CACHE[k]]
                /\ key \notin DOMAIN CACHE =>
                      /\ loc'.cached = None
                      /\ CACHE' = CACHE
       /\ \A k \in (DOMAIN CACHE') \ (DOMAIN CACHE) :
            StoreStep /\ k = loc.cache_key[1]]_vars

\* C4 witness: a lookup has just evicted its expired entry while another
\* entry is in the cache.
C4_Witness ==
    /\ pc = "scrape_news"
    /\ trace.evicted
    /\ loc.cached = None
    /\ CACHE # NoEntries

\* C5: a lookup that finds an unexpired entry ends the request with the
\* stored payload and without any upstream call; the payload stored is the
\* one the storing request returned.
C5_HitShortCircuits ==
    [][/\ LookupStep =>
            LET key == loc'.cache_key[1]
            IN  (key \in DOMAIN CACHE /\ Age(key) <= CACHE_TTL_SECONDS) =>
                   /\ pc' = "done"
                   /\ response' = JSONResponse(lastSet[key].data)
                   /\ NoUpstreamCalls(trace')
       /\ StoreStep => response' = JSONResponse(lastSet'[loc.cache_key[1]].data)]_vars

\* C5 witness: a request with two topics in its list was answered from the
\* cache, without any upstream call.
C5_Witness ==
    /\ pc = "done"
    /\ loc.cached # None
    /\ response.kind = "ok"
    /\ NoUpstreamCalls(trace)
    /\ Len(request.topics) = 2

\* fetch, summarize and synthesize have all succeeded
AllSucceeded ==
    /\ trace.fetched
    /\ loc.news_data # EmptyStr \/ loc.x_data # EmptyStr
    /\ Len(trace.groq) = 1
    /\ trace.groq[1].status = 200
    /\ Strip(loc.summary) # EmptyStr
    /\ Len(trace.tts) = 1
    /\ trace.tts[1].kind = "response"

\* C6: the cache changes only by the eviction a lookup does on its own key
\* and by the set_cache of a request whose fetch, summarize and synthesize
\* all succeeded and which returns a result; a request that fails has not
\* stored.
C6_NoNegativeCaching ==
    /\ [][CACHE' # CACHE =>
             \/ /\ LookupStep
                /\ loc'.cache_key[1] \in DOMAIN CACHE
                /\ Age(loc'.cache_key[1]) > CACHE_TTL_SECONDS
                /\ CACHE' = [k \in (DOMAIN CACHE) \ {loc'.cache_key[1]} |-> CACHE[k]]
             \/ /\ StoreStep
                /\ AllSucceeded
                /\ response'.kind = "ok"]_vars
    /\ [](response.kind = "error" => ~trace.stored)

\* C6 witness: a request failed at the last stage before the store, and the
\* cache has no entry for its key.
C6_Witness ==
    /\ pc = "done"
    /\ response.kind = "error"
    /\ Len(trace.tts) = 1
    /\ loc.cache_key[1] \notin DOMAIN CACHE

\* C7: when the texts fetched are both empty the request fails with the
\* no-data failure, and neither the summarizer nor the synthesizer is called.
C7_NoDataGuard ==
    (trace.fetched /\ loc.news_data = EmptyStr /\ loc.x_data = EmptyStr) =>
        /\ pc = "done"
        /\ response = ErrorResponse(400,
               "No data could be fetched from News or X for the given topics.")
        /\ trace.groq = <<>>
        /\ trace.tts = <<>>

\* C7 witness: both sources of a "both" request answered and gave no text.
C7_Witness ==
    /\ request.source_type = "both"
    /\ Len(trace.news) = 1
    /\ Len(trace.x) = 1
    /\ trace.fetched
    /\ loc.news_data = EmptyStr
    /\ loc.x_data = EmptyStr

\* an upstream call of this request was answered 429
Saw429 ==
    \/ \E i \in DOMAIN trace.news : trace.news[i].status = 429
    \/ \E i \in DOMAIN trace.x : trace.x[i].status = 429
    \/ \E i \in DOMAIN trace.groq : trace.groq[i].status = 429

\* C8: a request one of whose upstream calls (news search, X search,
\* summarizer) was answered 429 ends with a failure of status 429.
C8_RateLimitPropagates ==
    Saw429 => /\ pc = "done"
              /\ response.kind = "error"
              /\ response.status = 429

\* C8 witness: both sources gave text and the summarizer answered 429.
C8_Witness ==
    /\ loc.news_data # EmptyStr
    /\ loc.x_data # EmptyStr
    /\ Len(trace.groq) = 1
    /\ trace.groq[1].status = 429
    /\ response.status = 429

\* the request ended in the fetch stage, before the summarizer was reached
FailedInFetch ==
    /\ pc = "done"
    /\ response.kind = "error"
    /\ ~trace.fetched

\* C9: in a "both" request, when the X search raises (network error, timeout)
\* and the news search gave text, the request goes on to the summarizer with
\* the news text alone; an exception in either fetcher never ends the request.
C9_PartialSourceTolerance ==
    /\ (/\ request.source_type = "both"
        /\ Len(trace.x) = 1
        /\ trace.x[1].kind = "raises"
        /\ loc.news_data # EmptyStr) => ~FailedInFetch
    /\ (/\ request.source_type = "both"
        /\ Len(trace.news) = 1
        /\ trace.news[1].kind = "raises") => ~FailedInFetch

\* an answer with a status outside 2xx other than 429, or a 200 answer whose
\* item list is missing or empty
NoItems(ans) ==
    /\ ans.kind = "response"
    /\ ans.status = 200
    /\ ans.body \in {"no items key", "empty items"}

ErrorStatus(ans) ==
    /\ ans.kind = "response"
    /\ ans.status < 200 \/ ans.status >= 300
    /\ ans.status # 429

----------------------------------------------------------------------------
(* Properties of the handler's failures.                                   *)

\* a topic list without any topic that is not blank
AllBlank(topics) == \A i \in DOMAIN topics : Strip(topics[i]) = EmptyStr

\* C11: a request whose topic list is empty after trimming and dropping blank
\* topics ends with the 400 "At least one non-empty topic is required."
\* failure, and no cache key was made, no lookup, no store and no upstream
\* call was done for it.
C11_EmptyTopicsRejectedFirst ==
    (/\ request.source_type \in SourceTypes
     /\ AllBlank(request.topics)
     /\ pc # "filter_topics") =>
        /\ pc = "done"
        /\ response = ErrorResponse(400, "At least one non-empty topic is required.")
        /\ loc.cache_key = None
        /\ ~trace.looked
        /\ ~trace.stored
        /\ NoUpstreamCalls(trace)

\* C11 witness: a request made of one blank topic was rejected while the
\* cache holds an entry of an earlier request, which the request left alone.
C11_Witness ==
    /\ pc = "done"
    /\ request.source_type \in SourceTypes
    /\ request.topics # <<>>
    /\ AllBlank(request.topics)
    /\ response.status = 400
    /\ CACHE # NoEntries

\* the step in which the handler is done with the X search (main.py:308-316)
XStep == pc = "scrape_x" /\ pc' # "scrape_x"

\* C12: without X_BEARER_TOKEN, the X search of a request that selects X is
\* not called and gives the empty text without a failure; the request goes on
\* to the summarizer when the news text is not empty, and otherwise ends with
\* the no-data failure, never with a missing-credential failure.
C12_MissingXTokenTolerated ==
    [][(XStep /\ ~env.X_BEARER_TOKEN /\ request.source_type \in {"X", "both"}) =>
          /\ trace'.x = <<>>
          /\ loc'.x_data = EmptyStr
          /\ trace'.fetched
          /\ loc.news_data # EmptyStr =>
                /\ pc' = "summarize"
                /\ response' = NoResponse
          /\ loc.news_data = EmptyStr =>
                response' = ErrorResponse(400,
                    "No data could be fetched from News or X for the given topics.")]_vars

\* C12 witness: a "both" request without the X token is at the summarizer
\* with the news text alone, and no X search was called.
C12_Witness ==
    /\ pc = "summarize"
    /\ ~env.X_BEARER_TOKEN
    /\ request.source_type = "both"
    /\ loc.news_data # EmptyStr
    /\ loc.x_data = EmptyStr
    /\ trace.x = <<>>

\* an upstream call of this request raised an exception that is not an
\* HTTPException: requests raised, a search body was not JSON, the summarizer's
\* choice had no message, or gTTS raised
RaisedUnstructured ==
    \/ \E i \in DOMAIN trace.news :
          trace.news[i].kind = "raises" \/ trace.news[i].body = "not json"
    \/ \E i \in DOMAIN trace.x :
          trace.x[i].kind = "raises" \/ trace.x[i].body = "not json"
    \/ \E i \in DOMAIN trace.groq :
          trace.groq[i].kind = "raises" \/ trace.groq[i].body = "no message"
    \/ \E i \in DOMAIN trace.tts : trace.tts[i].kind = "raises"

\* C13: a request in which a call raised an exception that is not an
\* HTTPException ends with a failure of status 500; a request that has ended
\* has either a response made of a summary and an audio, or a failure with a
\* status and a detail.
C13_StructuredOutcome ==
    /\ RaisedUnstructured =>
          /\ pc = "done"
          /\ response.kind = "error"
          /\ response.status = 500
    /\ pc = "done" =>
          \/ /\ response.kind = "ok"
             /\ response.status = 200
             /\ response.body # None
             /\ DOMAIN response.body[1] = {"summary", "audio"}
          \/ /\ response.kind = "error"
             /\ response.status \in 400..599
             /\ response.detail # ""
             /\ response.body = None

\* C13 witness: gTTS raised after the summary was made, and the request
\* ended with status 500 and the exception's text as detail.
C13_Witness ==
    /\ pc = "done"
    /\ Len(trace.tts) = 1
    /\ trace.tts[1].kind = "raises"
    /\ response = ErrorResponse(500, "gTTSError")

\* C14: a request ends with status 429 only if one of the upstream calls it
\* made was answered 429; the failures of every other kind (422, 400, a
\* missing credential, another upstream status, a blank summary, an exception)
\* carry another status.
C14_Only429From429 ==
    /\ response.status = 429 => Saw429
    /\ (pc = "done" /\ response.kind = "error" /\ ~Saw429) =>
          response.status \in {400, 422, 500} \cup OtherStatuses

\* C14 witness: the news search of a "both" request was answered 429, the X
\* search was not called, and the request ended with status 429.
C14_Witness ==
    /\ pc = "done"
    /\ request.source_type = "both"
    /\ Len(trace.news) = 1
    /\ trace.news[1].status = 429
    /\ trace.x = <<>>
    /\ response.kind = "error"
    /\ response.status = 429

----------------------------------------------------------------------------
(* Properties of the cache entries.                                        *)

C18_ReadOnlyUntilExpiry ==
    [][/\ \A k \in DOMAIN CACHE :
            Age(k) <= CACHE_TTL_SECONDS =>
               /\ k \in DOMAIN CACHE'
               /\ CACHE'[k] = CACHE[k]
       /\ (LookupStep /\ loc'.cached # None) => CACHE' = CACHE
       /\ StoreStep => loc.cache_key[1] \notin DOMAIN CACHE]_vars

\* C18 witness: a request was answered from an entry made before the clock
\* moved, and the entry still has the timestamp of its creation.
C18_Witness ==
    /\ pc = "done"
    /\ loc.cached # None
    /\ now > 0
    /\ CACHE[loc.cache_key[1]] = [data |-> loc.cached[1], ts |-> 0]

----------------------------------------------------------------------------
(* Properties of the upstream calls.                                       *)

\* C19: within one request each of the news search, the X search, the
\* summarizer and the synthesizer is called at most once, whatever it
\* answers; the news search is called only for the source types "news" and
\* "both", the X search only for "X" and "both".
C19_AtMostOneCallEach ==
    /\ Len(trace.news) <= 1
    /\ Len(trace.x) <= 1
    /\ Len(trace.groq) <= 1
    /\ Len(trace.tts) <= 1
    /\ trace.news # <<>> => request.source_type \in {"news", "both"}
    /\ trace.x # <<>> => request.source_type \in {"X", "both"}

\* C19 witness: an "X" request ended with a result after one X search, one
\* summarizer call and one synthesis, and without a news search.
C19_Witness ==
    /\ pc = "done"
    /\ request.source_type = "X"
    /\ response.kind = "ok"
    /\ trace.news = <<>>
    /\ Len(trace.x) = 1
    /\ Len(trace.groq) = 1
    /\ Len(trace.tts) = 1

----------------------------------------------------------------------------
(* Properties of requests in flight at the same time.                      *)

\* the key of the request sent over connection c
KeyOf(c) ==
    make_cache_key(StripNonBlank(inflight[c].request.topics),
                   inflight[c].request.source_type)

AudioOfSummary(result) == result.audio = Base64(Mp3(result.summary))

====
